---- MODULE Spec2Model ----
(***************************************************************************)
(* A model of ovr_overlay: the event-record decoder VREvent::parse, the    *)
(* polling operation SystemManager::poll_next_event that feeds it, and the *)
(* pass-through wrappers of the input manager, the compositor, the         *)
(* chaperone setup, the tracked device properties and the error types.     *)
(*                                                                         *)
(* Five specifications share the module:                                   *)
(*   SpecParallel  threads that each run VREvent::parse, statement by      *)
(*               statement, on a record of their own;                      *)
(*   SpecBuild   one run of the build script of the sys crate;             *)
(*   SpecDecode  VREvent::parse applied to raw records drawn from a        *)
(*               bounded set of byte arrays;                               *)
(*   Spec        the runtime's event queue, poll_next_event and the        *)
(*               events the caller holds;                                  *)
(*   SpecWrap    one wrapper call at a time against a runtime that may     *)
(*               answer with any code of the call's enumeration.           *)
(***************************************************************************)
EXTENDS Integers, Sequences, FiniteSets

VARIABLES
    raw,        \* SpecDecode: the record handed to VREvent::parse
    decoded,    \* SpecDecode: what the last parse of `raw` returned
    host,       \* byte order of the host the crate was built for
    rtQueue,    \* events pending inside the runtime, oldest first
    event,      \* the MaybeUninit<VREvent_t> slot of poll_next_event
    returned,   \* the VREvent values the caller got from poll_next_event
    lastPoll,   \* what the last poll_next_event saw and returned
    decodeLog,  \* every <<record, result>> pair VREvent::parse produced
    posted,     \* number of events the runtime has produced so far
    polls,      \* number of poll_next_event calls so far
    delivered,  \* the records the runtime wrote on PollNextEvent, in order
    rtPolls,    \* number of PollNextEvent calls the runtime has received
    call,       \* SpecWrap: the last wrapper call, its runtime calls, its result
    thr,        \* SpecParallel: each thread's call of VREvent::parse
    frames,     \* SpecParallel: the `event` argument in each thread's stack frame
    build       \* SpecBuild: one run of the build script of the sys crate

decodeVars == <<raw, decoded>>
eventVars == <<host, rtQueue, event, returned, lastPoll, decodeLog, posted, polls,
               delivered, rtPolls>>
wrapVars == <<call>>
parVars == <<thr, frames>>
buildVars == <<build>>
vars == <<raw, decoded, host, rtQueue, event, returned, lastPoll, decodeLog,
          posted, polls, delivered, rtPolls, call, thr, frames, build>>

----------------------------------------------------------------------------
(* Bounds of the model.                                                    *)

\* size_of::<sys::VREvent_t>() in the model: the spec's minimal record.
VREVENT_SIZE == 16
\* Events the runtime produces in one behaviour.
MaxEvents == 2
\* Calls of poll_next_event in one behaviour.
MaxPolls == 3
\* Longest name or path given to an input-manager lookup.
MaxNameLen == 2

----------------------------------------------------------------------------
(* Bytes and words.                                                        *)

Byte == 0..255

\* A u32 as its two 16-bit halves (TLC's integers stop below 2^31):
\* the number is hi * 65536 + lo.
U32(hi, lo) == [hi |-> hi, lo |-> lo]

\* u32::to_le_bytes / to_be_bytes: how a host stores a u32 in memory.
to_le_bytes(v) ==
    << v.lo % 256, v.lo \div 256, v.hi % 256, v.hi \div 256 >>

to_be_bytes(v) ==
    << v.hi \div 256, v.hi % 256, v.lo \div 256, v.lo % 256 >>

\* byteorder::BigEndian::read_u32, the reading read_u32 must not be.
read_u32_be(buf) ==
    U32(buf[1] * 256 + buf[2], buf[3] * 256 + buf[4])

\* byteorder::LittleEndian::read_u32(buf): u32::from_le_bytes of buf[..4].
read_u32(buf) ==
    U32(buf[4] * 256 + buf[3], buf[2] * 256 + buf[1])

\* f32::from_bits: an IEEE-754 single as sign, biased exponent and fraction.
f32_from_bits(u) ==
    [sign |-> u.hi \div 32768,
     exponent |-> (u.hi \div 128) % 256,
     fraction |-> (u.hi % 128) * 65536 + u.lo]

\* f32::to_bits.
f32_to_bits(f) ==
    U32(f.sign * 32768 + f.exponent * 128 + f.fraction \div 65536,
        f.fraction % 65536)

\* A read_f32 that turns every NaN into the canonical quiet NaN.
read_f32_quiet(buf) ==
    LET f == f32_from_bits(read_u32(buf))
    IN  IF f.exponent = 255 /\ f.fraction # 0
        THEN [sign |-> 0, exponent |-> 255, fraction |-> 4194304]
        ELSE f

\* byteorder::LittleEndian::read_f32(buf): from_bits of the little-endian u32.
read_f32(buf) == f32_from_bits(read_u32(buf))

\* &bytes[a..b] of Rust (0-based, b exclusive) on a 1-based sequence.
Slice(bytes, a, b) == SubSeq(bytes, a + 1, b)

----------------------------------------------------------------------------
(* VREvent::parse.                                                         *)

None == [kind |-> "None"]
Some(v) == [kind |-> "Some", v |-> v]
Panic == [kind |-> "panic"]

\* The payload as a borrow of the record's first bytes instead of [12..].
data_misaligned(bytes) ==
    [i \in 1..(VREVENT_SIZE - 12) |-> bytes[i]]

\* data_slice: a fresh [u8; VREVENT_SIZE - 12] filled by copy_from_slice.
data_slice(bytes) ==
    LET data == Slice(bytes, 12, VREVENT_SIZE)
        zeroed == [i \in 1..(VREVENT_SIZE - 12) |-> 0]
    IN  [i \in DOMAIN zeroed |-> data[i]]

\* A decoder that rejects records whose age is not a finite number.
parse_finite(bytes) ==
    IF Len(bytes) # VREVENT_SIZE
    THEN Panic
    ELSE IF read_f32(Slice(bytes, 8, 12)).exponent = 255
         THEN None
         ELSE Some([event_type |-> read_u32(Slice(bytes, 0, 4)),
                    tracked_device_index |-> read_u32(Slice(bytes, 4, 8)),
                    event_age_seconds |-> read_f32(Slice(bytes, 8, 12)),
                    data |-> data_slice(bytes)])

\* VREvent::parse(event): `bytes` is the memory of the VREvent_t it is given.
\* as_array() aborts unless the slice has exactly VREVENT_SIZE bytes.
parse(bytes) ==
    IF Len(bytes) # VREVENT_SIZE
    THEN Panic
    ELSE Some([event_type |-> read_u32(Slice(bytes, 0, 4)),
               tracked_device_index |-> read_u32(Slice(bytes, 4, 8)),
               event_age_seconds |-> read_f32(Slice(bytes, 8, 12)),
               data |-> data_slice(bytes)])

----------------------------------------------------------------------------
(* SpecDecode: parse over a bounded set of raw records.                    *)

\* Four-byte groups the record's three leading fields are drawn from:
\* 1, 2, 1.0, all ones, a signalling NaN, and a word with four distinct bytes.
Words4 ==
    { <<1, 0, 0, 0>>, <<2, 0, 0, 0>>, <<0, 0, 128, 63>>,
      <<255, 255, 255, 255>>, <<1, 0, 128, 127>>, <<4, 3, 2, 1>> }

\* Union payloads: VREVENT_SIZE - 12 bytes, constant or pairwise distinct.
Payload(seed, stride) ==
    [i \in 1..(VREVENT_SIZE - 12) |-> (seed + stride * (i - 1)) % 256]

Payloads == { Payload(0, 0), Payload(250, 3), Payload(17, 1) }

RawRecords ==
    { w1 \o w2 \o w3 \o p : w1 \in Words4, w2 \in Words4, w3 \in Words4,
                            p \in Payloads }

NotCalled == [kind |-> "not called"]

DecodeIdle ==
    /\ raw = <<>>
    /\ decoded = NotCalled

\* host is fixed at build time; the event machinery is idle outside Spec.
EventIdle ==
    /\ host = "little"
    /\ rtQueue = <<>>
    /\ event = [init |-> FALSE, bytes |-> <<>>]
    /\ returned = <<>>
    /\ lastPoll = [res |-> FALSE, record |-> <<>>, logical |-> <<>>,
                   result |-> NotCalled, size |-> 0]
    /\ decodeLog = {}
    /\ posted = 0
    /\ polls = 0
    /\ delivered = <<>>
    /\ rtPolls = 0

WrapIdle ==
    call = [op |-> "none", input |-> <<>>, rt |-> <<>>, result |-> NotCalled]

\* Threads that decode at the same time (SpecParallel).
NThreads == 2
Threads == 1..NThreads

\* A thread that is not inside VREvent::parse.
NoCall == [pc |-> "idle", input |-> <<>>, result |-> NotCalled]

\* The locals of VREvent::parse in a stack frame not yet used.
EmptyFrame == [event |-> <<>>, bytes |-> <<>>, data_slice |-> <<>>]

ParIdle ==
    /\ thr = [t \in Threads |-> NoCall]
    /\ frames = [t \in Threads |-> EmptyFrame]

\* No build script is running (outside SpecBuild).
BuildIdle == build = [pc |-> "none"]

InitDecode ==
    /\ raw \in RawRecords
    /\ decoded = NotCalled
    /\ EventIdle
    /\ WrapIdle
    /\ ParIdle
    /\ BuildIdle

\* One call of VREvent::parse on the record held in `raw`.
Decode ==
    /\ decoded' = parse(raw)
    /\ UNCHANGED <<raw, eventVars, wrapVars, parVars, buildVars>>

NextDecode == Decode

SpecDecode == InitDecode /\ [][NextDecode]_vars

----------------------------------------------------------------------------
(* Spec: the runtime's event queue and SystemManager::poll_next_event.     *)

Hosts == {"little", "big"}

\* Events as the runtime holds them: numbers, not bytes.
RtEvents ==
    { [eventType |-> t, trackedDeviceIndex |-> d,
       eventAgeSeconds |-> f32_from_bits(U32(16256, 0)), data |-> p] :
        t \in {U32(0, 1), U32(258, 772)},
        d \in {U32(0, 2), U32(65535, 65535)},
        p \in {Payload(0, 0), Payload(250, 3)} }

\* u32::to_ne_bytes on host h.
to_ne_bytes(h, v) == IF h = "little" THEN to_le_bytes(v) ELSE to_be_bytes(v)

\* The memory of a sys::VREvent_t holding ev on host h: the struct
\* poll_next_event hands to parse, which parse views as bytes.
VREvent_t(h, ev) ==
    to_ne_bytes(h, ev.eventType) \o to_ne_bytes(h, ev.trackedDeviceIndex)
        \o to_ne_bytes(h, f32_to_bits(ev.eventAgeSeconds)) \o ev.data

Uninit == [init |-> FALSE, bytes |-> <<>>]

\* What the dead stack slot holds once something else has used it.
Garbage == [init |-> FALSE, bytes |-> [i \in 1..VREVENT_SIZE |-> 170]]

\* IVRSystem::PollNextEvent(pEvent, uncbVREvent): false when nothing is
\* pending, else the oldest event, of which the runtime writes the first
\* uncbVREvent bytes (all of them when uncbVREvent is the struct's size) to
\* *pEvent.
PollNextEvent(queue, h, uncbVREvent) ==
    IF queue = <<>>
    THEN [res |-> FALSE, mem |-> Uninit, queue |-> queue, logical |-> <<>>]
    ELSE [res |-> TRUE,
          mem |-> [init |-> TRUE,
                   bytes |-> SubSeq(VREvent_t(h, Head(queue)), 1,
                                    IF uncbVREvent < VREVENT_SIZE
                                    THEN uncbVREvent ELSE VREVENT_SIZE)],
          queue |-> Tail(queue),
          logical |-> Head(queue)]

\* A record size that leaves out the last four bytes of the struct.
record_size_short == VREVENT_SIZE - 4

\* std::mem::size_of::<sys::VREvent_t>() as u32, the size poll_next_event
\* passes to the runtime.
record_size == VREVENT_SIZE

\* A decoder that reads the payload through a pointer it kept to the record
\* memory of the previous call.
parse_retained(bytes) ==
    IF Len(event.bytes) = VREVENT_SIZE
    THEN [parse(bytes) EXCEPT !.v.data = data_slice(event.bytes)]
    ELSE parse(bytes)

\* VREvent::parse as poll_next_event calls it.
parse_event(bytes) == parse(bytes)

\* A poll that takes "no device" (0xFFFFFFFF) for "no event".
poll_result_no_device(res, mem) ==
    IF ~res
    THEN None
    ELSE LET e == parse_event(mem.bytes)
         IN  IF e.kind = "Some" /\ e.v.tracked_device_index = U32(65535, 65535)
             THEN None
             ELSE e

\* poll_next_event after the runtime call: None when res is false, else
\* assume_init, parse and `Some(event?)`.
poll_result(res, mem) ==
    IF ~res
    THEN None
    ELSE LET e == parse_event(mem.bytes)
         IN  IF e.kind = "Some" THEN Some(e.v) ELSE e

\* One event object shared by every holder.
Deliver_shared(held, e) ==
    [i \in 1..(Len(held) + 1) |-> e]

\* A caller that is handed the newest event first.
Deliver_newest_first(held, e) == <<e>> \o held

\* The caller receives the VREvent by value and keeps it.
Deliver(held, e) == Append(held, e)

Init ==
    /\ host \in Hosts
    /\ rtQueue = <<>>
    /\ event = Uninit
    /\ returned = <<>>
    /\ lastPoll = [res |-> FALSE, record |-> <<>>, logical |-> <<>>,
                   result |-> NotCalled, size |-> 0]
    /\ decodeLog = {}
    /\ posted = 0
    /\ polls = 0
    /\ delivered = <<>>
    /\ rtPolls = 0
    /\ DecodeIdle
    /\ WrapIdle
    /\ ParIdle
    /\ BuildIdle

\* The runtime queues one more event.
RuntimePost ==
    /\ posted < MaxEvents
    /\ \E ev \in RtEvents : rtQueue' = Append(rtQueue, ev)
    /\ posted' = posted + 1
    /\ UNCHANGED <<host, event, returned, lastPoll, decodeLog, polls,
                   delivered, rtPolls, decodeVars, wrapVars, parVars,
                   buildVars>>

\* SystemManager::poll_next_event.
poll_next_event ==
    /\ polls < MaxPolls
    /\ LET r == PollNextEvent(rtQueue, host, record_size)
           result == poll_result(r.res, r.mem)
       IN  /\ rtQueue' = r.queue
           /\ event' = r.mem
           /\ lastPoll' = [res |-> r.res, record |-> r.mem.bytes,
                           logical |-> r.logical, result |-> result,
                           size |-> record_size]
           /\ delivered' = IF r.res THEN Append(delivered, r.mem.bytes)
                           ELSE delivered
           /\ decodeLog' = IF r.res
                           THEN decodeLog \cup {<<r.mem.bytes, result>>}
                           ELSE decodeLog
           /\ returned' = IF result.kind = "Some"
                          THEN Deliver(returned, result.v)
                          ELSE returned
    /\ polls' = polls + 1
    /\ rtPolls' = rtPolls + 1
    /\ UNCHANGED <<host, posted, decodeVars, wrapVars, parVars, buildVars>>

\* After poll_next_event has returned, its record memory is reused.
ReuseRecordMemory ==
    /\ event # Garbage
    /\ polls > 0
    /\ event' = Garbage
    /\ UNCHANGED <<host, rtQueue, returned, lastPoll, decodeLog, posted, polls,
                   delivered, rtPolls, decodeVars, wrapVars, parVars,
                   buildVars>>

Next ==
    \/ RuntimePost
    \/ poll_next_event
    \/ ReuseRecordMemory

Spec == Init /\ [][Next]_vars

----------------------------------------------------------------------------
(* Error wrappers (errors.rs).                                             *)

Ok(v) == [kind |-> "Ok", v |-> v]
\* Err(Self(err)): the wrapper struct around the runtime's code.
Err(code) == [kind |-> "Err", inner |-> code]
Unit == <<>>

EVRInitErrorCodes ==
    { "VRInitError_None", "VRInitError_Unknown",
      "VRInitError_Init_InstallationNotFound", "VRInitError_Driver_Failed",
      "VRInitError_IPC_ServerInitFailed" }

EVROverlayErrorCodes ==
    { "VROverlayError_None", "VROverlayError_UnknownOverlay",
      "VROverlayError_InvalidHandle", "VROverlayError_PermissionDenied",
      "VROverlayError_OverlayLimitExceeded", "VROverlayError_WrongVisibilityType",
      "VROverlayError_KeyTooLong", "VROverlayError_NameTooLong",
      "VROverlayError_KeyInUse", "VROverlayError_WrongTransformType",
      "VROverlayError_InvalidTrackedDevice", "VROverlayError_InvalidParameter",
      "VROverlayError_ThumbnailCantBeDestroyed", "VROverlayError_ArrayTooSmall",
      "VROverlayError_RequestFailed", "VROverlayError_InvalidTexture",
      "VROverlayError_UnableToLoadFile", "VROverlayError_KeyboardAlreadyInUse",
      "VROverlayError_NoNeighbor", "VROverlayError_TooManyMaskPrimitives",
      "VROverlayError_BadMaskPrimitive", "VROverlayError_TextureAlreadyLocked",
      "VROverlayError_TextureNotLocked", "VROverlayError_TextureLockCapacityReached",
      "VROverlayError_TimedOut" }

ETrackedPropertyErrorCodes ==
    { "TrackedProp_Success", "TrackedProp_WrongDataType",
      "TrackedProp_WrongDeviceClass", "TrackedProp_BufferTooSmall",
      "TrackedProp_UnknownProperty", "TrackedProp_InvalidDevice",
      "TrackedProp_CouldNotContactServer", "TrackedProp_ValueNotProvidedByDevice",
      "TrackedProp_StringExceedsMaximumLength", "TrackedProp_NotYetAvailable",
      "TrackedProp_PermissionDenied", "TrackedProp_InvalidOperation",
      "TrackedProp_CannotWriteToWildcards", "TrackedProp_IPCReadFailure",
      "TrackedProp_OutOfMemory", "TrackedProp_InvalidContainer" }

EVRInputErrorCodes ==
    { "VRInputError_None", "VRInputError_NameNotFound", "VRInputError_WrongType",
      "VRInputError_InvalidHandle", "VRInputError_InvalidParam",
      "VRInputError_NoSteam", "VRInputError_MaxCapacityReached",
      "VRInputError_IPCError", "VRInputError_NoActiveActionSet",
      "VRInputError_InvalidDevice", "VRInputError_InvalidSkeleton",
      "VRInputError_InvalidBoneCount", "VRInputError_InvalidCompressedData",
      "VRInputError_NoData", "VRInputError_BufferTooSmall",
      "VRInputError_MismatchedActionManifest", "VRInputError_MissingSkeletonData",
      "VRInputError_InvalidBoneIndex", "VRInputError_InvalidPriority",
      "VRInputError_PermissionDenied", "VRInputError_InvalidRenderModel" }

EVRCompositorErrorCodes ==
    { "VRCompositorError_None", "VRCompositorError_RequestFailed",
      "VRCompositorError_IncompatibleVersion", "VRCompositorError_DoNotHaveFocus",
      "VRCompositorError_InvalidTexture", "VRCompositorError_IsNotSceneApplication",
      "VRCompositorError_TextureIsOnWrongDevice",
      "VRCompositorError_TextureUsesUnsupportedFormat",
      "VRCompositorError_SharedTexturesNotSupported",
      "VRCompositorError_IndexOutOfRange", "VRCompositorError_AlreadySubmitted",
      "VRCompositorError_AlreadySet", "VRCompositorError_InvalidBounds" }

EVRApplicationErrorCodes ==
    { "VRApplicationError_None", "VRApplicationError_AppKeyAlreadyExists",
      "VRApplicationError_NoManifest", "VRApplicationError_NoApplication",
      "VRApplicationError_InvalidIndex", "VRApplicationError_UnknownApplication",
      "VRApplicationError_IPCFailed", "VRApplicationError_ApplicationAlreadyRunning",
      "VRApplicationError_InvalidManifest", "VRApplicationError_InvalidApplication",
      "VRApplicationError_LaunchFailed", "VRApplicationError_ApplicationAlreadyStarting",
      "VRApplicationError_LaunchInProgress", "VRApplicationError_OldApplicationQuitting",
      "VRApplicationError_TransitionAborted", "VRApplicationError_IsTemplate",
      "VRApplicationError_SteamVRIsExiting", "VRApplicationError_BufferTooSmall",
      "VRApplicationError_PropertyNotSet", "VRApplicationError_UnknownProperty",
      "VRApplicationError_InvalidParameter", "VRApplicationError_NotImplemented" }

\* EVRInitError::new.
EVRInitError_new(err) ==
    IF err = "VRInitError_None" THEN Ok(Unit) ELSE Err(err)

\* EVROverlayError::new.
EVROverlayError_new(err) ==
    IF err = "VROverlayError_None" THEN Ok(Unit) ELSE Err(err)

\* ETrackedPropertyError::new.
ETrackedPropertyError_new(err) ==
    IF err = "TrackedProp_Success" THEN Ok(Unit) ELSE Err(err)

\* EVRInputError::new.
EVRInputError_new(err) ==
    IF err = "VRInputError_None" THEN Ok(Unit) ELSE Err(err)

\* A new that also takes AlreadySubmitted for success.
EVRCompositorError_new_lenient(err) ==
    IF err \in {"VRCompositorError_None", "VRCompositorError_AlreadySubmitted"}
    THEN Ok(Unit)
    ELSE Err(err)

\* EVRCompositorError::new.
EVRCompositorError_new(err) ==
    IF err = "VRCompositorError_None" THEN Ok(Unit) ELSE Err(err)

\* EVRApplicationError::new.
EVRApplicationError_new(err) ==
    IF err = "VRApplicationError_None" THEN Ok(Unit) ELSE Err(err)

\* e.inner(): the code an error value wraps.
inner(e) == e.inner

----------------------------------------------------------------------------
(* InputManager and CompositorManager wrappers (input.rs, compositor.rs).  *)

\* Every sequence over S of length at most n.
SeqsUpTo(S, n) == UNION { [1..k -> S] : k \in 0..n }

\* Bytes of a &str argument: NUL, 'a' and '/'.
Names == SeqsUpTo({0, 97, 47}, MaxNameLen)

\* Bytes of a Path argument (Unix): NUL, 'a' and 0xFF, which is no UTF-8.
Paths == SeqsUpTo({0, 97, 255}, MaxNameLen)

\* Handles the runtime may write.
Handles == {0, 42}

HasNul(bytes) == \E k \in DOMAIN bytes : bytes[k] = 0

\* Path::to_string_lossy().as_bytes() for paths of ASCII and 0xFF bytes:
\* every byte that is no UTF-8 becomes U+FFFD (EF BF BD).
RECURSIVE to_string_lossy(_)
to_string_lossy(path) ==
    IF path = <<>>
    THEN <<>>
    ELSE (IF Head(path) < 128 THEN <<Head(path)>> ELSE <<239, 191, 189>>)
            \o to_string_lossy(Tail(path))

\* CString::new(bytes): an error on an interior NUL, else bytes plus a NUL.
CString_new(bytes) ==
    IF HasNul(bytes) THEN [kind |-> "Err", inner |-> "NulError"]
    ELSE Ok(bytes \o <<0>>)

\* One call into the runtime, as the call log keeps it.
RtCall(fn, arg, ret) == [fn |-> fn, arg |-> arg, ret |-> ret]

\* What a wrapper call did: the runtime calls it made and what it returned.
Outcome(rt, result) == [rt |-> rt, result |-> result]

\* What the runtime may answer to a handle lookup: a code and the handle
\* value left in the out parameter.
HandleAnswers == [err : EVRInputErrorCodes, handle : Handles]

\* InputManager::set_action_manifest_raw.
set_action_manifest_raw(path, err) ==
    Outcome(<<RtCall("SetActionManifestPath", path, err)>>, EVRInputError_new(err))

\* A set_action_manifest that reports a path with a NUL as NameNotFound.
set_action_manifest_not_found(path, err) ==
    LET c == CString_new(to_string_lossy(path))
    IN  IF c.kind = "Ok"
        THEN set_action_manifest_raw(c.v, err)
        ELSE Outcome(<<>>, EVRInputError_new("VRInputError_NameNotFound"))

\* InputManager::set_action_manifest.
set_action_manifest(path, err) ==
    LET c == CString_new(to_string_lossy(path))
    IN  IF c.kind = "Ok"
        THEN set_action_manifest_raw(c.v, err)
        ELSE Outcome(<<>>, EVRInputError_new("VRInputError_InvalidParam"))

\* A runtime call that also writes to an out parameter.
RtCallOut(fn, arg, ret, out) == [fn |-> fn, arg |-> arg, ret |-> ret, out |-> out]

\* A lookup that hands back the handle whatever the code.
HandleResult_ignores_code(ans) == Ok(ans.handle)

\* The `?` after EVRInputError::new(err), then Ok(handle).
HandleResult(ans) ==
    IF EVRInputError_new(ans.err).kind = "Err"
    THEN EVRInputError_new(ans.err)
    ELSE Ok(ans.handle)

\* InputManager::get_action_set_handle_raw.
get_action_set_handle_raw(name, ans) ==
    Outcome(<<RtCallOut("GetActionSetHandle", name, ans.err, ans.handle)>>, HandleResult(ans))

\* InputManager::get_action_set_handle.
get_action_set_handle(name, ans) ==
    LET c == CString_new(name)
    IN  IF c.kind = "Ok"
        THEN get_action_set_handle_raw(c.v, ans)
        ELSE Outcome(<<>>, Err("VRInputError_InvalidParam"))

\* InputManager::get_action_handle_raw.
get_action_handle_raw(name, ans) ==
    Outcome(<<RtCallOut("GetActionHandle", name, ans.err, ans.handle)>>, HandleResult(ans))

\* InputManager::get_action_handle.
get_action_handle(name, ans) ==
    LET c == CString_new(name)
    IN  IF c.kind = "Ok"
        THEN get_action_handle_raw(c.v, ans)
        ELSE Outcome(<<>>, EVRInputError_new("VRInputError_InvalidParam"))

\* InputManager::get_input_source_handle_raw.
get_input_source_handle_raw(name, ans) ==
    Outcome(<<RtCallOut("GetInputSourceHandle", name, ans.err, ans.handle)>>, HandleResult(ans))

\* InputManager::get_input_source_handle.
get_input_source_handle(name, ans) ==
    LET c == CString_new(name)
    IN  IF c.kind = "Ok"
        THEN get_input_source_handle_raw(c.v, ans)
        ELSE Outcome(<<>>, EVRInputError_new("VRInputError_InvalidParam"))

\* InputManager::update_actions on a slice of n sets.
update_actions(n, err) ==
    Outcome(<<RtCall("UpdateActionState", n, err)>>, EVRInputError_new(err))

\* CompositorManager::get_last_poses on slices of n and m poses.
get_last_poses(n, m, err) ==
    Outcome(<<RtCall("GetLastPoses", <<n, m>>, err)>>, EVRCompositorError_new(err))

\* Option<&str> app keys and Option<ActionSetHandle> action sets.
NoneArg(unused) == [some |-> FALSE, v |-> unused]
SomeArg(v) == [some |-> TRUE, v |-> v]
AppKeys == {NoneArg(<<>>)} \cup { SomeArg(n) : n \in Names }
ActionSets == {NoneArg(0), SomeArg(42)}

NullPtr == [kind |-> "null", freed |-> <<>>]
\* cstr.as_ptr() of a CString dropped when the closure returns: the pointer
\* outlives the allocation, whose bytes were `freed`.
DanglingPtr(cstr) == [kind |-> "dangling", freed |-> cstr]

\* What the runtime does with the key pointer: `sees` is what it reads
\* behind it, `fault` whether reading it ends the process.  A null pointer
\* is not read.
BindingAnswers == [err : EVRInputErrorCodes, sees : {"key", "garbage"}, fault : BOOLEAN]

\* InputManager::open_binding_ui.
open_binding_ui(app_key, action_set, input_device, show_on_desktop, ans) ==
    IF app_key.some /\ CString_new(app_key.v).kind = "Err"
    THEN Outcome(<<>>, Panic)
    ELSE LET ptr == IF app_key.some
                    THEN DanglingPtr(CString_new(app_key.v).v)
                    ELSE NullPtr
             set == IF action_set.some THEN action_set.v ELSE 0
             arg == [pchAppKey |-> ptr,
                     sees |-> IF ptr.kind = "null" THEN "null" ELSE ans.sees,
                     ulActionSetHandle |-> set,
                     ulDeviceHandle |-> input_device,
                     bShowOnDesktop |-> show_on_desktop]
         IN  IF ptr.kind = "dangling" /\ ans.fault
             THEN Outcome(<<RtCall("OpenBindingUI", arg, "fault")>>, [kind |-> "crash"])
             ELSE Outcome(<<RtCall("OpenBindingUI", arg, ans.err)>>,
                          EVRInputError_new(ans.err))

----------------------------------------------------------------------------
(* Tracked device properties (system.rs).                                  *)

\* The longest length (bytes, NUL included) the runtime reports for a string.
MaxStrLen == 2

DeviceIndices == {0, 3}
\* ETrackedDeviceProperty values.
Properties == {1000, 1004}

ScalarKinds == {"bool", "f32", "i32", "u64"}
PropertyKinds == ScalarKinds \cup {"Matrix3x4", "String", "CString"}

\* Values the runtime may return for a property of kind T.
PropValues(T) ==
    CASE T = "bool" -> BOOLEAN
      [] T = "Matrix3x4" -> { [m |-> "identity"], [m |-> "zero"] }
      [] OTHER -> {0, 7}

\* What the runtime may answer to a scalar or matrix getter: the value it
\* returns and the code it leaves in *pError.
PropertyAnswers(T) == [value : PropValues(T), err : ETrackedPropertyErrorCodes]

\* Codes the runtime leaves in *pError of GetStringTrackedDeviceProperty.
StringCodes ==
    { "TrackedProp_Success", "TrackedProp_BufferTooSmall",
      "TrackedProp_UnknownProperty" }

\* Bytes the runtime may write to a string buffer: NUL, 'a' and 0xFF.
StrBytes == {0, 97, 255}

\* One answer of GetStringTrackedDeviceProperty: the length it returns and
\* the code it leaves in *pError.
StringAnswers == [len : 0..MaxStrLen, err : StringCodes]

\* A behaviour of the runtime for one string property: its answer to the
\* call with a null buffer, its answer to the call with a buffer, and what
\* the buffer of probe.len bytes (zeroed before the call) holds afterwards.
StringBehaviours ==
    UNION { { [probe |-> p, fill |-> f, buf |-> b] :
                f \in StringAnswers, b \in [1..p.len -> StrBytes] } :
            p \in StringAnswers }

\* The index and property a getter passes on.
PropArg(index, prop) == [unDeviceIndex |-> index, prop |-> prop]

\* A getter table that sends i32 requests to the u64 getter.
PropertyGetter_swapped(T) ==
    CASE T = "bool" -> "GetBoolTrackedDeviceProperty"
      [] T = "f32" -> "GetFloatTrackedDeviceProperty"
      [] T = "i32" -> "GetUint64TrackedDeviceProperty"
      [] T = "u64" -> "GetUint64TrackedDeviceProperty"

\* The instantiations of impl_property_type!: the getter of each scalar.
PropertyGetter(T) ==
    CASE T = "bool" -> "GetBoolTrackedDeviceProperty"
      [] T = "f32" -> "GetFloatTrackedDeviceProperty"
      [] T = "i32" -> "GetInt32TrackedDeviceProperty"
      [] T = "u64" -> "GetUint64TrackedDeviceProperty"

\* <$ty as TrackedDeviceProperty>::get of impl_property_type!($ty, $method).
impl_property_type(method, index, prop, ans) ==
    Outcome(<<RtCall(method, PropArg(index, prop), ans)>>,
            IF ETrackedPropertyError_new(ans.err).kind = "Err"
            THEN ETrackedPropertyError_new(ans.err)
            ELSE Ok(ans.value))

\* res.into(): the Matrix3x4 made of the rows of the runtime's HmdMatrix34_t.
Matrix3x4_from(hmd) == hmd.m

\* <Matrix3x4 as TrackedDeviceProperty>::get.
Matrix3x4_get(index, prop, ans) ==
    Outcome(<<RtCall("GetMatrix34TrackedDeviceProperty", PropArg(index, prop), ans)>>,
            IF ETrackedPropertyError_new(ans.err).kind = "Err"
            THEN ETrackedPropertyError_new(ans.err)
            ELSE Ok(Matrix3x4_from(ans.value)))

\* IVRSystem::GetStringTrackedDeviceProperty as the call log keeps it: the
\* runtime answers a null buffer with b.probe and a buffer with b.fill.
GetStringTrackedDeviceProperty(index, prop, pchValue, unBufferSize, b) ==
    RtCall("GetStringTrackedDeviceProperty",
           [unDeviceIndex |-> index, prop |-> prop, pchValue |-> pchValue,
            unBufferSize |-> unBufferSize],
           IF pchValue = "null" THEN b.probe ELSE b.fill)

\* The arguments get_string passes to f: first no buffer, then `storage`
\* of n bytes.
StringArgs(n) ==
    << [pchValue |-> "null", unBufferSize |-> 0],
       [pchValue |-> "storage", unBufferSize |-> n] >>

\* A get_string that keeps no watch on the length of the second answer.
get_string_no_assert(n, n_, storage) ==
    IF n = 0
    THEN [calls |-> 1, args |-> SubSeq(StringArgs(n), 1, 1), res |-> None]
    ELSE [calls |-> 2, args |-> StringArgs(n),
          res |-> Some(SubSeq(storage, 1, n - 1))]

\* get_string(f): n is what f(null, 0) returned, n_ what f(storage, n)
\* returned and `storage` the n bytes afterwards.  `calls` counts the calls
\* of f and `args` keeps what they were given.
get_string(n, n_, storage) ==
    IF n = 0
    THEN [calls |-> 1, args |-> SubSeq(StringArgs(n), 1, 1), res |-> None]
    ELSE IF n # n_
         THEN [calls |-> 2, args |-> StringArgs(n), res |-> Panic]
         ELSE [calls |-> 2, args |-> StringArgs(n),
               res |-> Some(SubSeq(storage, 1, n - 1))]

\* Whether bytes over StrBytes are UTF-8: 0xFF never is.
is_utf8(bytes) == \A k \in DOMAIN bytes : bytes[k] < 128

\* <String as TrackedDeviceProperty>::get.
String_get(index, prop, b) ==
    LET g == get_string(b.probe.len, b.fill.len, b.buf)
        c1 == GetStringTrackedDeviceProperty(index, prop, g.args[1].pchValue,
                                             g.args[1].unBufferSize, b)
        c2 == GetStringTrackedDeviceProperty(index, prop, g.args[2].pchValue,
                                             g.args[2].unBufferSize, b)
        rt == IF g.calls = 1 THEN <<c1>> ELSE <<c1, c2>>
        err == rt[Len(rt)].ret.err
    IN  IF g.res.kind = "panic"
        THEN Outcome(rt, Panic)
        ELSE IF ETrackedPropertyError_new(err).kind = "Err"
             THEN Outcome(rt, ETrackedPropertyError_new(err))
             ELSE IF g.res.kind = "None"
                  THEN Outcome(rt, Ok(<<>>))
                  ELSE IF is_utf8(g.res.v)
                       THEN Outcome(rt, Ok(g.res.v))
                       ELSE Outcome(rt, Panic)

\* A conversion that asks only for a NUL at the end.
from_vec_with_nul_lenient(data) ==
    IF data # <<>> /\ data[Len(data)] = 0
    THEN Ok(SubSeq(data, 1, Len(data) - 1))
    ELSE [kind |-> "Err", inner |-> "FromVecWithNulError"]

\* CString::from_vec_with_nul(data): Ok when the only NUL of data is its
\* last byte; the value is kept as the bytes before that NUL.
from_vec_with_nul(data) ==
    IF data # <<>> /\ data[Len(data)] = 0 /\ ~HasNul(SubSeq(data, 1, Len(data) - 1))
    THEN Ok(SubSeq(data, 1, Len(data) - 1))
    ELSE [kind |-> "Err", inner |-> "FromVecWithNulError"]

\* <CString as TrackedDeviceProperty>::get.
CString_get(index, prop, b) ==
    LET c1 == GetStringTrackedDeviceProperty(index, prop, "null", 0, b)
        len == c1.ret.len
        c2 == GetStringTrackedDeviceProperty(index, prop, "data", len, b)
    IN  IF ETrackedPropertyError_new(c1.ret.err).kind = "Err"
        THEN Outcome(<<c1>>, ETrackedPropertyError_new(c1.ret.err))
        ELSE IF ETrackedPropertyError_new(c2.ret.err).kind = "Err"
             THEN Outcome(<<c1, c2>>, ETrackedPropertyError_new(c2.ret.err))
             ELSE IF from_vec_with_nul(b.buf).kind = "Ok"
                  THEN Outcome(<<c1, c2>>, Ok(from_vec_with_nul(b.buf).v))
                  ELSE Outcome(<<c1, c2>>, Panic)

----------------------------------------------------------------------------
(* ChaperoneSetupManager (chaperone_setup.rs).                             *)

\* The most quads the runtime reports.
MaxQuads == 2

\* HmdQuad_t values the runtime may write.
QuadValues == {"north", "south"}

\* One answer of Get{Live,Working}CollisionBoundsInfo: the bool it returns
\* and the count it leaves in *punQuadsCount.
QuadAnswers == [success : BOOLEAN, count : 0..MaxQuads]

\* A behaviour of the runtime: its answer to the call with a null buffer,
\* its answer to the call with a buffer, and the quads it wrote to the
\* allocation of probe.count quads.
QuadBehaviours ==
    UNION { { [probe |-> p, fill |-> f, buf |-> b] :
                f \in QuadAnswers, b \in [1..p.count -> QuadValues] } :
            p \in QuadAnswers }

\* A Vec: its length and its allocation; its elements are the first `len`
\* values of the allocation.
Vec(len, buf) == [kind |-> "Vec", len |-> len, buf |-> buf]

\* vec![]
EmptyVec == Vec(0, <<>>)

\* Vec::with_capacity(n) after the runtime wrote to its allocation.
with_capacity_written(buf) == Vec(0, buf)

\* The body shared by get_live_collision_bounds_info and
\* get_working_collision_bounds_info; fn is the runtime function they call.
collision_bounds_info(fn, b) ==
    LET c1 == RtCall(fn, [pQuadsBuffer |-> "null", punQuadsCount |-> 0], b.probe)
        c2 == RtCall(fn, [pQuadsBuffer |-> "quads", punQuadsCount |-> b.probe.count],
                     b.fill)
    IN  IF ~b.probe.success
        THEN Outcome(<<c1>>, EmptyVec)
        ELSE IF ~b.fill.success
             THEN Outcome(<<c1, c2>>, EmptyVec)
             ELSE Outcome(<<c1, c2>>, with_capacity_written(b.buf))

\* ChaperoneSetupManager::get_live_collision_bounds_info.
get_live_collision_bounds_info(b) ==
    collision_bounds_info("GetLiveCollisionBoundsInfo", b)

\* ChaperoneSetupManager::get_working_collision_bounds_info.
get_working_collision_bounds_info(b) ==
    collision_bounds_info("GetWorkingCollisionBoundsInfo", b)

\* One answer of ExportLiveToBuffer: the bool it returns and the length it
\* leaves in *pnBufferLength.
ExportAnswers == [res : BOOLEAN, len : 0..MaxStrLen]

ExportBehaviours ==
    UNION { { [probe |-> p, fill |-> f, buf |-> b] :
                f \in ExportAnswers, b \in [1..p.len -> StrBytes] } :
            p \in ExportAnswers }

\* An export that gives up after the size probe.
export_live_to_buffer_probe_only(b) ==
    Outcome(<<RtCall("ExportLiveToBuffer",
                     [pBuffer |-> "null", pnBufferLength |-> 0], b.probe)>>,
            None)

\* ChaperoneSetupManager::export_live_to_buffer.
export_live_to_buffer(b) ==
    LET c1 == RtCall("ExportLiveToBuffer",
                     [pBuffer |-> "null", pnBufferLength |-> 0], b.probe)
        c2 == RtCall("ExportLiveToBuffer",
                     [pBuffer |-> "data", pnBufferLength |-> b.probe.len], b.fill)
    IN  IF b.probe.len = 0
        THEN Outcome(<<c1>>, None)
        ELSE IF b.fill.res /\ from_vec_with_nul(b.buf).kind = "Ok"
             THEN Outcome(<<c1, c2>>, Some(from_vec_with_nul(b.buf).v))
             ELSE Outcome(<<c1, c2>>, None)

----------------------------------------------------------------------------
(* InputManager::get_action_binding_info (input.rs).                       *)

\* The length of the `data` array and the count passed to the runtime.
BindingCap == 16

\* Counts the runtime may leave in *punReturnedBindingInfoCount.
BindingCounts == {0, 2, BindingCap, BindingCap + 1}

\* What the runtime may answer: its code, the count it writes, and what
\* lies behind the array: memory that reads as garbage, or none at all.
BindingInfoAnswers ==
    [err : EVRInputErrorCodes, count : BindingCounts, beyond : {"garbage", "fault"}]

\* The InputBindingInfo_t the runtime writes to entry i (from 0).
BindingInfo(i) == 100 + i

\* `data` after the call: zeroed, then the runtime's entries, at most
\* BindingCap of them.
BindingData(count) ==
    [i \in 1..BindingCap |-> IF i <= count THEN BindingInfo(i - 1) ELSE 0]

\* data.get_unchecked(i): the entry read and the slot it was read from;
\* past the array it is whatever lies there.
get_unchecked(data, i) ==
    [slot |-> i, info |-> IF i < Len(data) THEN data[i + 1] ELSE -1]

\* InputManager::get_action_binding_info.
get_action_binding_info(action, ans) ==
    LET c == RtCall("GetActionBindingInfo",
                    [action |-> action, unBindingInfoCount |-> BindingCap],
                    ans.err)
        data == BindingData(ans.count)
    IN  IF EVRInputError_new(ans.err).kind = "Err"
        THEN Outcome(<<c>>, EVRInputError_new(ans.err))
        ELSE IF ans.count > BindingCap /\ ans.beyond = "fault"
             THEN Outcome(<<c>>, [kind |-> "crash"])
             ELSE Outcome(<<c>>,
                          Ok([i \in 1..ans.count |-> get_unchecked(data, i - 1)]))

----------------------------------------------------------------------------
(* Display of the error wrappers (errors.rs).                              *)

\* The values of sys::EVRInitError in the runtime's C header.
EVRInitError_value(code) ==
    CASE code = "VRInitError_None" -> 0
      [] code = "VRInitError_Unknown" -> 1
      [] code = "VRInitError_Init_InstallationNotFound" -> 100
      [] code = "VRInitError_Driver_Failed" -> 200
      [] code = "VRInitError_IPC_ServerInitFailed" -> 300

\* The values of sys::EVROverlayError in the runtime's C header.
EVROverlayError_value(code) ==
    CASE code = "VROverlayError_None" -> 0
      [] code = "VROverlayError_UnknownOverlay" -> 10
      [] code = "VROverlayError_InvalidHandle" -> 11
      [] code = "VROverlayError_PermissionDenied" -> 12
      [] code = "VROverlayError_OverlayLimitExceeded" -> 13
      [] code = "VROverlayError_WrongVisibilityType" -> 14
      [] code = "VROverlayError_KeyTooLong" -> 15
      [] code = "VROverlayError_NameTooLong" -> 16
      [] code = "VROverlayError_KeyInUse" -> 17
      [] code = "VROverlayError_WrongTransformType" -> 18
      [] code = "VROverlayError_InvalidTrackedDevice" -> 19
      [] code = "VROverlayError_InvalidParameter" -> 20
      [] code = "VROverlayError_ThumbnailCantBeDestroyed" -> 21
      [] code = "VROverlayError_ArrayTooSmall" -> 22
      [] code = "VROverlayError_RequestFailed" -> 23
      [] code = "VROverlayError_InvalidTexture" -> 24
      [] code = "VROverlayError_UnableToLoadFile" -> 25
      [] code = "VROverlayError_KeyboardAlreadyInUse" -> 26
      [] code = "VROverlayError_NoNeighbor" -> 27
      [] code = "VROverlayError_TooManyMaskPrimitives" -> 29
      [] code = "VROverlayError_BadMaskPrimitive" -> 30
      [] code = "VROverlayError_TextureAlreadyLocked" -> 31
      [] code = "VROverlayError_TextureNotLocked" -> 33
      [] code = "VROverlayError_TextureLockCapacityReached" -> 32
      [] code = "VROverlayError_TimedOut" -> 34

\* The values of sys::ETrackedPropertyError in the runtime's C header.
ETrackedPropertyError_value(code) ==
    CASE code = "TrackedProp_Success" -> 0
      [] code = "TrackedProp_WrongDataType" -> 1
      [] code = "TrackedProp_WrongDeviceClass" -> 2
      [] code = "TrackedProp_BufferTooSmall" -> 3
      [] code = "TrackedProp_UnknownProperty" -> 4
      [] code = "TrackedProp_InvalidDevice" -> 5
      [] code = "TrackedProp_CouldNotContactServer" -> 6
      [] code = "TrackedProp_ValueNotProvidedByDevice" -> 7
      [] code = "TrackedProp_StringExceedsMaximumLength" -> 8
      [] code = "TrackedProp_NotYetAvailable" -> 9
      [] code = "TrackedProp_PermissionDenied" -> 10
      [] code = "TrackedProp_InvalidOperation" -> 11
      [] code = "TrackedProp_CannotWriteToWildcards" -> 12
      [] code = "TrackedProp_IPCReadFailure" -> 13
      [] code = "TrackedProp_OutOfMemory" -> 14
      [] code = "TrackedProp_InvalidContainer" -> 15

\* The values of sys::EVRInputError in the runtime's C header.
EVRInputError_value(code) ==
    CASE code = "VRInputError_None" -> 0
      [] code = "VRInputError_NameNotFound" -> 1
      [] code = "VRInputError_WrongType" -> 2
      [] code = "VRInputError_InvalidHandle" -> 3
      [] code = "VRInputError_InvalidParam" -> 4
      [] code = "VRInputError_NoSteam" -> 5
      [] code = "VRInputError_MaxCapacityReached" -> 6
      [] code = "VRInputError_IPCError" -> 7
      [] code = "VRInputError_NoActiveActionSet" -> 8
      [] code = "VRInputError_InvalidDevice" -> 9
      [] code = "VRInputError_InvalidSkeleton" -> 10
      [] code = "VRInputError_InvalidBoneCount" -> 11
      [] code = "VRInputError_InvalidCompressedData" -> 12
      [] code = "VRInputError_NoData" -> 13
      [] code = "VRInputError_BufferTooSmall" -> 14
      [] code = "VRInputError_MismatchedActionManifest" -> 15
      [] code = "VRInputError_MissingSkeletonData" -> 16
      [] code = "VRInputError_InvalidBoneIndex" -> 17
      [] code = "VRInputError_InvalidPriority" -> 18
      [] code = "VRInputError_PermissionDenied" -> 19
      [] code = "VRInputError_InvalidRenderModel" -> 20

\* The values of sys::EVRApplicationError in the runtime's C header.
EVRApplicationError_value(code) ==
    CASE code = "VRApplicationError_None" -> 0
      [] code = "VRApplicationError_AppKeyAlreadyExists" -> 100
      [] code = "VRApplicationError_NoManifest" -> 101
      [] code = "VRApplicationError_NoApplication" -> 102
      [] code = "VRApplicationError_InvalidIndex" -> 103
      [] code = "VRApplicationError_UnknownApplication" -> 104
      [] code = "VRApplicationError_IPCFailed" -> 105
      [] code = "VRApplicationError_ApplicationAlreadyRunning" -> 106
      [] code = "VRApplicationError_InvalidManifest" -> 107
      [] code = "VRApplicationError_InvalidApplication" -> 108
      [] code = "VRApplicationError_LaunchFailed" -> 109
      [] code = "VRApplicationError_ApplicationAlreadyStarting" -> 110
      [] code = "VRApplicationError_LaunchInProgress" -> 111
      [] code = "VRApplicationError_OldApplicationQuitting" -> 112
      [] code = "VRApplicationError_TransitionAborted" -> 113
      [] code = "VRApplicationError_IsTemplate" -> 114
      [] code = "VRApplicationError_SteamVRIsExiting" -> 115
      [] code = "VRApplicationError_BufferTooSmall" -> 200
      [] code = "VRApplicationError_PropertyNotSet" -> 201
      [] code = "VRApplicationError_UnknownProperty" -> 202
      [] code = "VRApplicationError_InvalidParameter" -> 203
      [] code = "VRApplicationError_NotImplemented" -> 300

\* `as u8` on the value of an enumeration: its low eight bits.
as_u8(v) == v % 256

\* What fmt writes: the wrapper's name and the number in the brackets (the
\* description some wrappers add after it is left out).
Printed(wrapper, num) == [kind |-> "printed", wrapper |-> wrapper, num |-> num]

\* <EVRInitError as Display>::fmt.
EVRInitError_fmt(code) == Printed("EVRInitError", as_u8(EVRInitError_value(code)))

\* <EVROverlayError as Display>::fmt.
EVROverlayError_fmt(code) == Printed("EVROverlayError", as_u8(EVROverlayError_value(code)))

\* <ETrackedPropertyError as Display>::fmt.
ETrackedPropertyError_fmt(code) == Printed("ETrackedPropertyError", as_u8(ETrackedPropertyError_value(code)))

\* <EVRInputError as Display>::fmt.
EVRInputError_fmt(code) == Printed("EVRInputError", as_u8(EVRInputError_value(code)))

\* <EVRApplicationError as Display>::fmt.
EVRApplicationError_fmt(code) == Printed("EVRApplicationError", as_u8(EVRApplicationError_value(code)))

----------------------------------------------------------------------------
(* SpecWrap: one wrapper call after another; `call` keeps the last one.    *)

Called(op, input, outcome) ==
    [op |-> op, input |-> input, rt |-> outcome.rt, result |-> outcome.result]

\* No wrapper call is in progress and no result is held.
Idle == call.op = "none"

InitWrap ==
    /\ WrapIdle
    /\ DecodeIdle
    /\ EventIdle
    /\ ParIdle
    /\ BuildIdle

SetActionManifest ==
    /\ Idle
    /\ \E path \in Paths, err \in EVRInputErrorCodes :
          call' = Called("set_action_manifest", path, set_action_manifest(path, err))
    /\ UNCHANGED <<decodeVars, eventVars, parVars, buildVars>>

GetActionSetHandle ==
    /\ Idle
    /\ \E name \in Names, ans \in HandleAnswers :
          call' = Called("get_action_set_handle", name, get_action_set_handle(name, ans))
    /\ UNCHANGED <<decodeVars, eventVars, parVars, buildVars>>

GetActionHandle ==
    /\ Idle
    /\ \E name \in Names, ans \in HandleAnswers :
          call' = Called("get_action_handle", name, get_action_handle(name, ans))
    /\ UNCHANGED <<decodeVars, eventVars, parVars, buildVars>>

GetInputSourceHandle ==
    /\ Idle
    /\ \E name \in Names, ans \in HandleAnswers :
          call' = Called("get_input_source_handle", name,
                         get_input_source_handle(name, ans))
    /\ UNCHANGED <<decodeVars, eventVars, parVars, buildVars>>

OpenBindingUI ==
    /\ Idle
    /\ \E key \in AppKeys, set \in ActionSets, ans \in BindingAnswers :
          call' = Called("open_binding_ui", [app_key |-> key, action_set |-> set],
                         open_binding_ui(key, set, 0, TRUE, ans))
    /\ UNCHANGED <<decodeVars, eventVars, parVars, buildVars>>

UpdateActions ==
    /\ Idle
    /\ \E n \in 0..1, err \in EVRInputErrorCodes :
          call' = Called("update_actions", n, update_actions(n, err))
    /\ UNCHANGED <<decodeVars, eventVars, parVars, buildVars>>

GetLastPoses ==
    /\ Idle
    /\ \E n \in 0..1, err \in EVRCompositorErrorCodes :
          call' = Called("get_last_poses", n, get_last_poses(n, n, err))
    /\ UNCHANGED <<decodeVars, eventVars, parVars, buildVars>>

NewInitError ==
    /\ Idle
    /\ \E err \in EVRInitErrorCodes :
          call' = Called("EVRInitError::new", err, Outcome(<<>>, EVRInitError_new(err)))
    /\ UNCHANGED <<decodeVars, eventVars, parVars, buildVars>>

NewOverlayError ==
    /\ Idle
    /\ \E err \in EVROverlayErrorCodes :
          call' = Called("EVROverlayError::new", err,
                         Outcome(<<>>, EVROverlayError_new(err)))
    /\ UNCHANGED <<decodeVars, eventVars, parVars, buildVars>>

NewTrackedPropertyError ==
    /\ Idle
    /\ \E err \in ETrackedPropertyErrorCodes :
          call' = Called("ETrackedPropertyError::new", err,
                         Outcome(<<>>, ETrackedPropertyError_new(err)))
    /\ UNCHANGED <<decodeVars, eventVars, parVars, buildVars>>

NewInputError ==
    /\ Idle
    /\ \E err \in EVRInputErrorCodes :
          call' = Called("EVRInputError::new", err,
                         Outcome(<<>>, EVRInputError_new(err)))
    /\ UNCHANGED <<decodeVars, eventVars, parVars, buildVars>>

NewCompositorError ==
    /\ Idle
    /\ \E err \in EVRCompositorErrorCodes :
          call' = Called("EVRCompositorError::new", err,
                         Outcome(<<>>, EVRCompositorError_new(err)))
    /\ UNCHANGED <<decodeVars, eventVars, parVars, buildVars>>

NewApplicationError ==
    /\ Idle
    /\ \E err \in EVRApplicationErrorCodes :
          call' = Called("EVRApplicationError::new", err,
                         Outcome(<<>>, EVRApplicationError_new(err)))
    /\ UNCHANGED <<decodeVars, eventVars, parVars, buildVars>>

\* SystemManager::get_tracked_device_property::<T> for a scalar T.
GetScalarProperty ==
    /\ Idle
    /\ \E T \in ScalarKinds, index \in DeviceIndices, prop \in Properties :
          \E ans \in PropertyAnswers(T) :
             call' = Called("get_tracked_device_property",
                            [T |-> T, index |-> index, prop |-> prop],
                            impl_property_type(PropertyGetter(T), index, prop, ans))
    /\ UNCHANGED <<decodeVars, eventVars, parVars, buildVars>>

\* SystemManager::get_tracked_device_property::<Matrix3x4>.
GetMatrixProperty ==
    /\ Idle
    /\ \E index \in DeviceIndices, prop \in Properties,
          ans \in PropertyAnswers("Matrix3x4") :
             call' = Called("get_tracked_device_property",
                            [T |-> "Matrix3x4", index |-> index, prop |-> prop],
                            Matrix3x4_get(index, prop, ans))
    /\ UNCHANGED <<decodeVars, eventVars, parVars, buildVars>>

\* get_string(f) for a closure f that answers as the behaviour b says.
GetString ==
    /\ Idle
    /\ \E b \in StringBehaviours :
          LET g == get_string(b.probe.len, b.fill.len, b.buf)
          IN  call' = Called("get_string", b,
                             Outcome([k \in 1..g.calls |->
                                         RtCall("f", g.args[k],
                                                IF k = 1 THEN b.probe.len
                                                ELSE b.fill.len)],
                                     g.res))
    /\ UNCHANGED <<decodeVars, eventVars, parVars, buildVars>>

\* SystemManager::get_tracked_device_property::<String>.
GetStringProperty ==
    /\ Idle
    /\ \E index \in DeviceIndices, prop \in Properties, b \in StringBehaviours :
             call' = Called("get_tracked_device_property",
                            [T |-> "String", index |-> index, prop |-> prop,
                             runtime |-> b],
                            String_get(index, prop, b))
    /\ UNCHANGED <<decodeVars, eventVars, parVars, buildVars>>

\* SystemManager::get_tracked_device_property::<CString>.
GetCStringProperty ==
    /\ Idle
    /\ \E index \in DeviceIndices, prop \in Properties, b \in StringBehaviours :
             call' = Called("get_tracked_device_property",
                            [T |-> "CString", index |-> index, prop |-> prop,
                             runtime |-> b],
                            CString_get(index, prop, b))
    /\ UNCHANGED <<decodeVars, eventVars, parVars, buildVars>>

GetLiveCollisionBoundsInfo ==
    /\ Idle
    /\ \E b \in QuadBehaviours :
          call' = Called("get_live_collision_bounds_info", b,
                         get_live_collision_bounds_info(b))
    /\ UNCHANGED <<decodeVars, eventVars, parVars, buildVars>>

GetWorkingCollisionBoundsInfo ==
    /\ Idle
    /\ \E b \in QuadBehaviours :
          call' = Called("get_working_collision_bounds_info", b,
                         get_working_collision_bounds_info(b))
    /\ UNCHANGED <<decodeVars, eventVars, parVars, buildVars>>

ExportLiveToBuffer ==
    /\ Idle
    /\ \E b \in ExportBehaviours :
          call' = Called("export_live_to_buffer", b, export_live_to_buffer(b))
    /\ UNCHANGED <<decodeVars, eventVars, parVars, buildVars>>

GetActionBindingInfo ==
    /\ Idle
    /\ \E action \in Handles, ans \in BindingInfoAnswers :
          call' = Called("get_action_binding_info",
                         [action |-> action, runtime |-> ans],
                         get_action_binding_info(action, ans))
    /\ UNCHANGED <<decodeVars, eventVars, parVars, buildVars>>

\* Display of an Err value made by EVRInitError::new.
DisplayInitError ==
    /\ Idle
    /\ \E code \in EVRInitErrorCodes :
          /\ EVRInitError_new(code).kind = "Err"
          /\ call' = Called("Display for EVRInitError", code,
                            Outcome(<<>>, EVRInitError_fmt(inner(EVRInitError_new(code)))))
    /\ UNCHANGED <<decodeVars, eventVars, parVars, buildVars>>

\* Display of an Err value made by EVROverlayError::new.
DisplayOverlayError ==
    /\ Idle
    /\ \E code \in EVROverlayErrorCodes :
          /\ EVROverlayError_new(code).kind = "Err"
          /\ call' = Called("Display for EVROverlayError", code,
                            Outcome(<<>>, EVROverlayError_fmt(inner(EVROverlayError_new(code)))))
    /\ UNCHANGED <<decodeVars, eventVars, parVars, buildVars>>

\* Display of an Err value made by ETrackedPropertyError::new.
DisplayTrackedPropertyError ==
    /\ Idle
    /\ \E code \in ETrackedPropertyErrorCodes :
          /\ ETrackedPropertyError_new(code).kind = "Err"
          /\ call' = Called("Display for ETrackedPropertyError", code,
                            Outcome(<<>>, ETrackedPropertyError_fmt(inner(ETrackedPropertyError_new(code)))))
    /\ UNCHANGED <<decodeVars, eventVars, parVars, buildVars>>

\* Display of an Err value made by EVRInputError::new.
DisplayInputError ==
    /\ Idle
    /\ \E code \in EVRInputErrorCodes :
          /\ EVRInputError_new(code).kind = "Err"
          /\ call' = Called("Display for EVRInputError", code,
                            Outcome(<<>>, EVRInputError_fmt(inner(EVRInputError_new(code)))))
    /\ UNCHANGED <<decodeVars, eventVars, parVars, buildVars>>

\* Display of an Err value made by EVRApplicationError::new.
DisplayApplicationError ==
    /\ Idle
    /\ \E code \in EVRApplicationErrorCodes :
          /\ EVRApplicationError_new(code).kind = "Err"
          /\ call' = Called("Display for EVRApplicationError", code,
                            Outcome(<<>>, EVRApplicationError_fmt(inner(EVRApplicationError_new(code)))))
    /\ UNCHANGED <<decodeVars, eventVars, parVars, buildVars>>

\* The caller is done with the result of the last call.
DropResult ==
    /\ ~Idle
    /\ call' = [op |-> "none", input |-> <<>>, rt |-> <<>>, result |-> NotCalled]
    /\ UNCHANGED <<decodeVars, eventVars, parVars, buildVars>>

NextWrap ==
    \/ SetActionManifest
    \/ GetActionSetHandle
    \/ GetActionHandle
    \/ GetInputSourceHandle
    \/ OpenBindingUI
    \/ UpdateActions
    \/ GetLastPoses
    \/ NewInitError
    \/ NewOverlayError
    \/ NewTrackedPropertyError
    \/ NewInputError
    \/ NewCompositorError
    \/ NewApplicationError
    \/ GetScalarProperty
    \/ GetMatrixProperty
    \/ GetString
    \/ GetStringProperty
    \/ GetCStringProperty
    \/ GetLiveCollisionBoundsInfo
    \/ GetWorkingCollisionBoundsInfo
    \/ ExportLiveToBuffer
    \/ GetActionBindingInfo
    \/ DisplayInitError
    \/ DisplayOverlayError
    \/ DisplayTrackedPropertyError
    \/ DisplayInputError
    \/ DisplayApplicationError
    \/ DropResult

SpecWrap == InitWrap /\ [][NextWrap]_vars

----------------------------------------------------------------------------
(* SpecParallel: threads that each call VREvent::parse on a record of      *)
(* their own; a step is one statement of parse in one thread.              *)

\* The records the threads decode: types 1..3, device 2, age 1.0.
ParRecords ==
    { to_le_bytes(U32(0, k)) \o to_le_bytes(U32(0, 2)) \o to_le_bytes(U32(16256, 0))
        \o Payload(k, 1) : k \in 1..3 }

\* One set of locals shared by every call, as statics would be.
frame_of_static(t) == 1

\* The stack frame that holds the locals of thread t's call of parse: `event`
\* is passed by value and `bytes` and `data_slice` are arrays of the callee.
frame_of(t) == t

InitParallel ==
    /\ ParIdle
    /\ BuildIdle
    /\ DecodeIdle
    /\ EventIdle
    /\ WrapIdle

\* parse(event) is called: the VREvent_t is moved into the callee's frame.
EnterParse ==
    /\ \E t \in Threads, rec \in ParRecords :
          /\ thr[t].pc = "idle"
          /\ thr' = [thr EXCEPT ![t] = [pc |-> "entered", input |-> rec,
                                         result |-> NotCalled]]
          /\ frames' = [frames EXCEPT ![frame_of(t)].event = rec]
    /\ UNCHANGED <<decodeVars, eventVars, wrapVars, buildVars>>

\* let bytes: [u8; VREVENT_SIZE] = *from_raw_parts(&event ..).as_array()
CopyBytes ==
    /\ \E t \in Threads :
          /\ thr[t].pc = "entered"
          /\ thr' = [thr EXCEPT ![t].pc = "bytes"]
          /\ frames' = [frames EXCEPT ![frame_of(t)].bytes =
                                          frames[frame_of(t)].event]
    /\ UNCHANGED <<decodeVars, eventVars, wrapVars, buildVars>>

\* data_slice.copy_from_slice(&bytes[12..VREVENT_SIZE])
CopyData ==
    /\ \E t \in Threads :
          /\ thr[t].pc = "bytes"
          /\ thr' = [thr EXCEPT ![t].pc = "data"]
          /\ frames' = [frames EXCEPT ![frame_of(t)].data_slice =
                                          data_slice(frames[frame_of(t)].bytes)]
    /\ UNCHANGED <<decodeVars, eventVars, wrapVars, buildVars>>

\* Some(VREvent { .. }): the header is read from `bytes` and the value returned.
ReturnEvent ==
    /\ \E t \in Threads :
          /\ thr[t].pc = "data"
          /\ LET f == frames[frame_of(t)]
             IN  thr' = [thr EXCEPT
                    ![t].pc = "returned",
                    ![t].result =
                        Some([event_type |-> read_u32(Slice(f.bytes, 0, 4)),
                              tracked_device_index |-> read_u32(Slice(f.bytes, 4, 8)),
                              event_age_seconds |-> read_f32(Slice(f.bytes, 8, 12)),
                              data |-> f.data_slice])]
    /\ UNCHANGED <<frames, decodeVars, eventVars, wrapVars, buildVars>>

\* The caller is done with the event; the frame keeps what it held.
DropEvent ==
    /\ \E t \in Threads :
          /\ thr[t].pc = "returned"
          /\ thr' = [thr EXCEPT ![t] = NoCall]
    /\ UNCHANGED <<frames, decodeVars, eventVars, wrapVars, buildVars>>

NextParallel ==
    \/ EnterParse
    \/ CopyBytes
    \/ CopyData
    \/ ReturnEvent
    \/ DropEvent

SpecParallel == InitParallel /\ [][NextParallel]_vars

----------------------------------------------------------------------------
(* SpecBuild: the build script of the sys crate (sys/build.rs).            *)

\* Platforms a build script may be compiled for or build for.
Platforms ==
    { [os |-> "windows", arch |-> "x86_64"], [os |-> "linux", arch |-> "x86_64"],
      [os |-> "linux", arch |-> "x86"], [os |-> "linux", arch |-> "aarch64"],
      [os |-> "macos", arch |-> "aarch64"] }

\* env::var_os(ENV_NO_VENDOR): unset, "0", "1" or the empty string.
NoVendorEnvs == {NoneArg(""), SomeArg("0"), SomeArg("1"), SomeArg("")}

\* What pkg-config knows of a system openvr: nothing, or its version.
NoLibrary == <<>>
SystemLibraries == {NoLibrary, <<1, 23, 6>>, <<1, 23, 7>>, <<1, 23, 8>>}

\* Version a comes before version b.
VersionBelow(a, b) ==
    \/ a[1] < b[1]
    \/ a[1] = b[1] /\ a[2] < b[2]
    \/ a[1] = b[1] /\ a[2] = b[2] /\ a[3] < b[3]

\* cfg.range_version("1.23.7".."1.23.8"): from 1.23.7 up to, not including,
\* 1.23.8.
range_version(v) == ~VersionBelow(v, <<1, 23, 7>>) /\ VersionBelow(v, <<1, 23, 8>>)

\* try_system_openvr(): Ok with the library's include paths, or Err.
try_system_openvr(lib) ==
    IF lib # NoLibrary /\ range_version(lib)
    THEN Ok([include_paths |-> {"system include"}, version |-> lib])
    ELSE [kind |-> "Err", inner |-> "pkg_config::Error"]

\* The platform the cfg attributes of a build script see: the one the
\* script itself is compiled for, which is the host of the build.
build_script_cfg(host_platform, target_platform) == host_platform

\* vendored_files() under the cfg of platform p: the files to copy, or None.
vendored_files(p) ==
    IF p.os = "windows"
    THEN Some({"openvr/bin/win64/openvr_api.dll", "openvr/lib/win64/openvr_api.lib"})
    ELSE IF p.os = "linux" /\ p.arch = "x86_64"
         THEN Some({"openvr/bin/linux64/libopenvr_api.so"})
         ELSE IF p.os = "linux" /\ p.arch = "x86"
              THEN Some({"openvr/bin/linux32/libopenvr_api.so"})
              ELSE None

\* forced_no_vendor: the variable is set to anything but "0".
forced_no_vendor(env) == IF env.some THEN env.v # "0" ELSE FALSE

\* The inputs of one build.
BuildInputs ==
    [env : NoVendorEnvs, host : Platforms, target : Platforms,
     system : SystemLibraries, copy_ok : BOOLEAN]

InitBuild ==
    /\ \E i \in BuildInputs :
          build = [pc |-> "main", input |-> i, library |-> "none", files |-> {},
                   include_paths |-> {}]
    /\ DecodeIdle
    /\ EventIdle
    /\ WrapIdle
    /\ ParIdle

\* main up to the match: vendored when not forced and there are files.
SelectLibrary ==
    /\ build.pc = "main"
    /\ LET files == vendored_files(build_script_cfg(build.input.host, build.input.target))
       IN  IF ~forced_no_vendor(build.input.env) /\ files.kind = "Some"
           THEN build' = [build EXCEPT !.pc = "vendored", !.library = "vendored",
                                       !.files = files.v]
           ELSE build' = [build EXCEPT !.pc = "system", !.library = "system"]
    /\ UNCHANGED <<decodeVars, eventVars, wrapVars, parVars>>

\* The vendored arm: the files are copied to OUT_DIR, or the script panics.
CopyVendored ==
    /\ build.pc = "vendored"
    /\ IF build.input.copy_ok
       THEN build' = [build EXCEPT !.pc = "bindings",
                                   !.include_paths = {"openvr/headers"}]
       ELSE build' = [build EXCEPT !.pc = "failed"]
    /\ UNCHANGED <<decodeVars, eventVars, wrapVars, parVars>>

\* The other arm: the system library is probed; Err is unwrapped.
ProbeSystem ==
    /\ build.pc = "system"
    /\ LET r == try_system_openvr(build.input.system)
       IN  IF r.kind = "Ok"
           THEN build' = [build EXCEPT !.pc = "bindings",
                                       !.include_paths = r.v.include_paths]
           ELSE build' = [build EXCEPT !.pc = "failed"]
    /\ UNCHANGED <<decodeVars, eventVars, wrapVars, parVars>>

\* autocxx_build::Builder::new(.., include_paths).build() and compile.
GenerateBindings ==
    /\ build.pc = "bindings"
    /\ build' = [build EXCEPT !.pc = "done"]
    /\ UNCHANGED <<decodeVars, eventVars, wrapVars, parVars>>

NextBuild ==
    \/ SelectLibrary
    \/ CopyVendored
    \/ ProbeSystem
    \/ GenerateBindings

SpecBuild == InitBuild /\ [][NextBuild]_vars

----------------------------------------------------------------------------
(* Claims about the decoder, checked under SpecDecode.                     *)

\* The little-endian u32 of the four bytes of `bytes` that follow offset `at`.
LeWordAt(bytes, at) ==
    U32(bytes[at + 3] + 256 * bytes[at + 4], bytes[at + 1] + 256 * bytes[at + 2])

\* Re-encoding of a decoded event: three little-endian words, then the payload.
Encode(e) ==
    to_le_bytes(e.event_type) \o to_le_bytes(e.tracked_device_index)
        \o to_le_bytes(f32_to_bits(e.event_age_seconds)) \o e.data

\* The record of the spec's scenario: 01 00 00 00 02 00 00 00 00 00 80 3F.
ScenarioHeader == <<1, 0, 0, 0, 2, 0, 0, 0, 0, 0, 128, 63>>

\* C1: the event parse returns has event_type equal to the little-endian u32
\* of bytes 0..4, tracked_device_index equal to the little-endian u32 of
\* bytes 4..8 (0xFFFFFFFF unchanged), and an event_age_seconds whose bit
\* pattern is the little-endian u32 of bytes 8..12; the scenario record
\* decodes to event type 1, device 2 and age 1.0.
C1_FieldsLittleEndian ==
    decoded.kind = "Some" =>
        /\ decoded.v.event_type = LeWordAt(raw, 0)
        /\ decoded.v.tracked_device_index = LeWordAt(raw, 4)
        /\ f32_to_bits(decoded.v.event_age_seconds) = LeWordAt(raw, 8)
        /\ SubSeq(raw, 1, 12) = ScenarioHeader =>
              /\ decoded.v.event_type = U32(0, 1)
              /\ decoded.v.tracked_device_index = U32(0, 2)
              /\ decoded.v.event_age_seconds =
                    [sign |-> 0, exponent |-> 127, fraction |-> 0]

C1_Witness ==
    /\ decoded.kind = "Some"
    /\ SubSeq(raw, 1, 12) = ScenarioHeader
    /\ decoded.v.event_type = U32(0, 1)
    /\ f32_to_bits(decoded.v.event_age_seconds) = U32(16256, 0)

\* C2: the payload parse returns has exactly VREVENT_SIZE - 12 bytes and its
\* i-th byte is input byte 12 + i: nothing dropped, reordered or altered.
C2_PayloadVerbatim ==
    decoded.kind = "Some" =>
        /\ Len(decoded.v.data) = VREVENT_SIZE - 12
        /\ DOMAIN decoded.v.data = 1..(VREVENT_SIZE - 12)
        /\ \A i \in 1..(VREVENT_SIZE - 12) : decoded.v.data[i] = raw[12 + i]

C2_Witness ==
    /\ decoded.kind = "Some"
    /\ decoded.v.data = Payload(250, 3)
    /\ \E i \in 1..(VREVENT_SIZE - 12) : decoded.v.data[i] # raw[i]

\* C3: parse returns Some(event) for every content of the record: no event
\* type, device index, float pattern (NaN, infinity) or payload makes it
\* return None or abort.
C3_ParseAlwaysSome ==
    decoded # NotCalled => decoded.kind = "Some"

C3_Witness ==
    /\ decoded.kind = "Some"
    /\ decoded.v.event_age_seconds.exponent = 255
    /\ decoded.v.event_age_seconds.fraction # 0
    /\ decoded.v.tracked_device_index = U32(65535, 65535)

\* C5: re-encoding the decoded fields as little-endian words and appending
\* the payload gives back the raw record byte for byte.
C5_RoundTrip ==
    decoded.kind = "Some" => Encode(decoded.v) = raw

C5_Witness ==
    /\ decoded.kind = "Some"
    /\ SubSeq(raw, 9, 12) = <<1, 0, 128, 127>>
    /\ SubSeq(raw, 1, 4) = <<4, 3, 2, 1>>
    /\ Encode(decoded.v) = raw

----------------------------------------------------------------------------
(* Claims about polling, checked under Spec.                               *)

\* C4: poll_next_event returns None exactly when PollNextEvent reported no
\* event; when the runtime reported one it returns Some(e), e being the
\* little-endian decode of the record written in that call.
C4_NoneIffNoEvent ==
    lastPoll.result # NotCalled =>
        /\ lastPoll.result.kind = "None" <=> ~lastPoll.res
        /\ lastPoll.res =>
              /\ lastPoll.result.kind = "Some"
              /\ lastPoll.result.v.event_type = LeWordAt(lastPoll.record, 0)
              /\ lastPoll.result.v.tracked_device_index = LeWordAt(lastPoll.record, 4)
              /\ f32_to_bits(lastPoll.result.v.event_age_seconds)
                    = LeWordAt(lastPoll.record, 8)
              /\ lastPoll.result.v.data = SubSeq(lastPoll.record, 13, VREVENT_SIZE)

C4_Witness ==
    /\ lastPoll.res
    /\ lastPoll.result.kind = "Some"
    /\ lastPoll.result.v.tracked_device_index = U32(65535, 65535)
    /\ polls >= 2
    /\ Len(returned) = 1

\* C6: on either host the event poll_next_event returns holds the numbers
\* the runtime holds for that event: type, device index and age.
C6_HostIndependent ==
    lastPoll.res =>
        /\ lastPoll.result.kind = "Some"
        /\ lastPoll.result.v.event_type = lastPoll.logical.eventType
        /\ lastPoll.result.v.tracked_device_index = lastPoll.logical.trackedDeviceIndex
        /\ lastPoll.result.v.event_age_seconds = lastPoll.logical.eventAgeSeconds

\* The little-endian half of C6 is reached: a poll on a little-endian host
\* that returned the runtime's numbers.
C6_Witness ==
    /\ host = "little"
    /\ lastPoll.res
    /\ lastPoll.result.v.event_type = lastPoll.logical.eventType
    /\ lastPoll.logical.eventType = U32(258, 772)

\* C7: parse is a pure function: every decode of the same record gives the
\* same event, whatever happened in between, and the decode inside a poll
\* changes neither its input record, nor the manager beyond the runtime's
\* own dequeue, nor any event returned before.
C7_ParsePure ==
    [][(polls' = polls + 1 /\ lastPoll'.res) =>
            /\ \A p \in decodeLog', q \in decodeLog' : p[1] = q[1] => p[2] = q[2]
            /\ event'.bytes = lastPoll'.record
            /\ rtQueue' = Tail(rtQueue)
            /\ Len(returned') >= Len(returned)
            /\ SubSeq(returned', 1, Len(returned)) = returned]_vars

\* The same record was decoded twice, the record memory reused in between.
C7_Witness ==
    /\ polls = 3
    /\ Len(returned) = 2
    /\ Cardinality(decodeLog) = 1
    /\ returned[1] = returned[2]
    /\ event = Garbage

\* C8: an event poll_next_event returned is an independent copy: no later
\* step (reuse of the record memory, another poll, the runtime queueing
\* events) changes any field or payload byte of it.
C8_ReturnedEventsIndependent ==
    [][\A i \in 1..Len(returned) :
            /\ Len(returned') >= i
            /\ returned'[i] = returned[i]]_vars

\* An event is held, the record memory was reused, and a later poll
\* returned a different event.
C8_Witness ==
    /\ Len(returned) = 2
    /\ returned[1] # returned[2]
    /\ event = Garbage
    /\ returned[1].data = Payload(250, 3)

----------------------------------------------------------------------------
(* Claims about the wrappers, checked under SpecWrap.                      *)

NameLookups ==
    { "set_action_manifest", "get_action_set_handle", "get_action_handle",
      "get_input_source_handle" }

\* The failure code of the result is one the runtime returned in this call.
FromRuntime == \E k \in DOMAIN call.rt : call.rt[k].ret = call.result.inner

\* C9 as stated: every Err one of the five operations returns carries a
\* code the runtime returned during that operation, and none of them aborts
\* on its own, whatever the input string.
C9_NoInventedFailure ==
    call.op \in NameLookups \cup {"open_binding_ui"} =>
        /\ call.result.kind = "Err" => FromRuntime
        /\ call.result.kind \notin {"panic", "crash"}

\* C9 amended: an Err of the five operations carries a code the runtime
\* returned in that call, except that the four name lookups answer a path
\* or name with an interior NUL by Err(VRInputError_InvalidParam) of their
\* own, without calling the runtime, and only then; the four never abort;
\* open_binding_ui aborts, without calling the runtime, on an app_key with
\* an interior NUL.
C9_ErrFromRuntimeOrNul ==
    /\ call.op \in NameLookups =>
          /\ call.result.kind \in {"Ok", "Err"}
          /\ HasNul(call.input) <=> call.rt = <<>>
          /\ HasNul(call.input) => call.result = Err("VRInputError_InvalidParam")
          /\ (call.result.kind = "Err" /\ ~HasNul(call.input)) => FromRuntime
    /\ call.op = "open_binding_ui" =>
          /\ call.result.kind = "Err" => FromRuntime
          /\ (call.input.app_key.some /\ HasNul(call.input.app_key.v)) =>
                (call.result = Panic /\ call.rt = <<>>)

C9_Witness ==
    /\ call.op = "set_action_manifest"
    /\ call.input = <<97, 0>>
    /\ call.rt = <<>>
    /\ call.result = Err("VRInputError_InvalidParam")

ErrorNews ==
    { "EVRInitError::new", "EVROverlayError::new", "ETrackedPropertyError::new",
      "EVRInputError::new", "EVRCompositorError::new", "EVRApplicationError::new" }

\* The None/Success code of the enumeration an operation's codes belong to.
SuccessCode(op) ==
    CASE op = "EVRInitError::new" -> "VRInitError_None"
      [] op = "EVROverlayError::new" -> "VROverlayError_None"
      [] op = "ETrackedPropertyError::new" -> "TrackedProp_Success"
      [] op \in {"EVRInputError::new", "update_actions"} -> "VRInputError_None"
      [] op \in {"EVRCompositorError::new", "get_last_poses"} -> "VRCompositorError_None"
      [] op = "EVRApplicationError::new" -> "VRApplicationError_None"

\* C10: new(code) of each of the six wrappers is Ok(()) exactly for the
\* None/Success code and Err(e) with e.inner() = code otherwise, so no Err
\* holds the None/Success code; get_last_poses and update_actions, which
\* forward the runtime's code to new, are Ok exactly when it is None.
C10_NewOkIffNone ==
    /\ call.op \in ErrorNews =>
          /\ call.result = Ok(Unit) <=> call.input = SuccessCode(call.op)
          /\ call.input # SuccessCode(call.op) =>
                (call.result.kind = "Err" /\ inner(call.result) = call.input)
          /\ call.result.kind = "Err" => inner(call.result) # SuccessCode(call.op)
    /\ call.op \in {"get_last_poses", "update_actions"} =>
          /\ Len(call.rt) = 1
          /\ call.result = Ok(Unit) <=> call.rt[1].ret = SuccessCode(call.op)
          /\ call.result.kind = "Err" =>
                (inner(call.result) = call.rt[1].ret
                    /\ inner(call.result) # SuccessCode(call.op))

C10_Witness ==
    /\ call.op = "get_last_poses"
    /\ call.rt[1].ret = "VRCompositorError_AlreadySubmitted"
    /\ call.result.kind = "Err"
    /\ inner(call.result) = "VRCompositorError_AlreadySubmitted"

----------------------------------------------------------------------------
(* Claims about the property getters, checked under SpecWrap.              *)

PropertyCall == call.op = "get_tracked_device_property"

\* The non-success codes the runtime left in *pError during the call.
Signalled ==
    { call.rt[k].ret.err : k \in DOMAIN call.rt } \ {"TrackedProp_Success"}

\* C11 as stated: get_tracked_device_property::<T> returns Err(code) exactly
\* when the runtime signalled a non-success code during the call, with that
\* code; otherwise it returns Ok with the value the runtime produced (for
\* String the runtime's bytes without the trailing NUL, or the empty string
\* when the runtime reports length 0); it never aborts.
C11_ErrIffSignalled ==
    PropertyCall =>
        /\ call.result.kind \in {"Ok", "Err"}
        /\ call.result.kind = "Err" <=> Signalled # {}
        /\ call.result.kind = "Err" => inner(call.result) \in Signalled
        /\ (call.result.kind = "Ok" /\ call.input.T \in ScalarKinds) =>
              call.result.v = call.rt[1].ret.value
        /\ (call.result.kind = "Ok" /\ call.input.T = "Matrix3x4") =>
              call.result.v = call.rt[1].ret.value.m
        /\ (call.result.kind = "Ok" /\ call.input.T \in {"String", "CString"}) =>
              call.result.v =
                 IF call.rt[1].ret.len = 0
                 THEN <<>>
                 ELSE SubSeq(call.input.runtime.buf, 1, call.rt[1].ret.len - 1)

\* A String request aborts: the runtime reported success twice and wrote
\* the bytes FF 00.
C11_Witness ==
    /\ PropertyCall
    /\ call.input.T = "String"
    /\ Signalled = {}
    /\ call.input.runtime.buf = <<255, 0>>
    /\ Len(call.rt) = 2
    /\ call.result = Panic

\* C18: a request of kind T calls only the runtime getter of that kind
\* (String and CString both GetStringTrackedDeviceProperty), at least once,
\* and every such call carries the caller's device index and property.
ExpectedGetter(T) ==
    CASE T = "bool" -> "GetBoolTrackedDeviceProperty"
      [] T = "f32" -> "GetFloatTrackedDeviceProperty"
      [] T = "i32" -> "GetInt32TrackedDeviceProperty"
      [] T = "u64" -> "GetUint64TrackedDeviceProperty"
      [] T = "Matrix3x4" -> "GetMatrix34TrackedDeviceProperty"
      [] T \in {"String", "CString"} -> "GetStringTrackedDeviceProperty"

C18_DispatchExact ==
    PropertyCall =>
        /\ call.rt # <<>>
        /\ \A k \in DOMAIN call.rt :
              /\ call.rt[k].fn = ExpectedGetter(call.input.T)
              /\ call.rt[k].arg.unDeviceIndex = call.input.index
              /\ call.rt[k].arg.prop = call.input.prop

C18_Witness ==
    /\ PropertyCall
    /\ call.input.T = "i32"
    /\ call.input.index = 3
    /\ call.input.prop = 1004
    /\ call.rt[1].fn = "GetInt32TrackedDeviceProperty"
    /\ call.rt[1].arg = PropArg(3, 1004)
    /\ call.result = Ok(7)

\* C19 as stated: whatever the runtime answers to the two calls of
\* GetStringTrackedDeviceProperty, the String request and the CString
\* request end the same way: both Ok with the same bytes or both Err with
\* the same code, and neither aborts.
C19_StringCStringEquivalent ==
    (PropertyCall /\ call.input.T = "String") =>
        LET c == CString_get(call.input.index, call.input.prop,
                             call.input.runtime).result
        IN  /\ call.result.kind \in {"Ok", "Err"}
            /\ c.kind \in {"Ok", "Err"}
            /\ c = call.result

\* The size probe reports length 2 with BufferTooSmall and the fill
\* succeeds: the String request is Ok("a"), the CString request is Err.
C19_Witness ==
    /\ PropertyCall
    /\ call.input.T = "String"
    /\ call.input.runtime = [probe |-> [len |-> 2, err |-> "TrackedProp_BufferTooSmall"],
                             fill |-> [len |-> 2, err |-> "TrackedProp_Success"],
                             buf |-> <<97, 0>>]
    /\ call.result = Ok(<<97>>)
    /\ CString_get(call.input.index, call.input.prop, call.input.runtime).result
          = Err("TrackedProp_BufferTooSmall")

----------------------------------------------------------------------------
(* Claims about the number of runtime calls, checked under SpecWrap.       *)

CollisionBounds ==
    { "get_live_collision_bounds_info", "get_working_collision_bounds_info" }

\* The wrapper methods SpecWrap calls.
WrapperMethods ==
    NameLookups \cup CollisionBounds \cup
        { "open_binding_ui", "update_actions", "get_last_poses",
          "get_tracked_device_property", "export_live_to_buffer",
          "get_action_binding_info" }

\* C12 as stated: every wrapper method calls the runtime exactly once.
C12_ExactlyOneCall ==
    call.op \in WrapperMethods => Len(call.rt) = 1

\* The number of runtime calls the last wrapper call is to have made.
ExpectedCalls ==
    CASE call.op \in NameLookups -> IF HasNul(call.input) THEN 0 ELSE 1
      [] call.op = "open_binding_ui" ->
            IF call.input.app_key.some /\ HasNul(call.input.app_key.v) THEN 0 ELSE 1
      [] call.op = "get_tracked_device_property" /\ call.input.T = "String" ->
            IF call.input.runtime.probe.len = 0 THEN 1 ELSE 2
      [] call.op = "get_tracked_device_property" /\ call.input.T = "CString" ->
            IF call.input.runtime.probe.err # "TrackedProp_Success" THEN 1 ELSE 2
      [] call.op = "export_live_to_buffer" ->
            IF call.input.probe.len = 0 THEN 1 ELSE 2
      [] call.op \in CollisionBounds ->
            IF ~call.input.probe.success THEN 1 ELSE 2
      [] OTHER -> 1

\* C12 amended: a wrapper method makes at most two runtime calls.  The
\* methods that fetch data of unknown size (export_live_to_buffer, the two
\* collision bounds getters, the String and CString property getters) call
\* one runtime function once with no buffer and, unless that answer ends
\* the operation, once more with a buffer; the name lookups and
\* open_binding_ui make no call for a string with an interior NUL; every
\* other call is exactly one.
C12_CallsPerMethod ==
    call.op \in WrapperMethods =>
        /\ Len(call.rt) = ExpectedCalls
        /\ \A k \in DOMAIN call.rt : call.rt[k].fn = call.rt[1].fn

C12_Witness ==
    /\ call.op = "export_live_to_buffer"
    /\ Len(call.rt) = 2
    /\ call.rt[1].arg.pBuffer = "null"
    /\ call.rt[2].arg = [pBuffer |-> "data", pnBufferLength |-> 2]
    /\ call.result = Some(<<97>>)

----------------------------------------------------------------------------
(* Claims about buffers and pointers, checked under SpecWrap.              *)

\* C16 as stated: when both runtime calls succeed, the collision bounds
\* getters return a vector whose length is the quad count the runtime
\* reported and whose elements are the quads it wrote; when either call
\* fails they return an empty vector.
C16_BoundsAsReported ==
    call.op \in CollisionBounds =>
        IF call.input.probe.success /\ call.input.fill.success
        THEN /\ call.result.len = call.input.fill.count
             /\ call.input.fill.count <= Len(call.input.buf)
             /\ SubSeq(call.result.buf, 1, call.result.len)
                   = SubSeq(call.input.buf, 1, call.input.fill.count)
        ELSE call.result = EmptyVec

\* Both calls succeed with two quads and the vector returned has length 0.
C16_Witness ==
    /\ call.op = "get_live_collision_bounds_info"
    /\ call.input = [probe |-> [success |-> TRUE, count |-> 2],
                     fill |-> [success |-> TRUE, count |-> 2],
                     buf |-> <<"north", "south">>]
    /\ Len(call.rt) = 2
    /\ call.result.len = 0

\* The smaller of two numbers.
Min(a, b) == IF a < b THEN a ELSE b

\* C17 as stated: get_action_binding_info reads only entries below
\* BindingCap whatever count the runtime writes, returns on success exactly
\* min(count, BindingCap) entries, those of the buffer in order, and on a
\* runtime error returns Err.
C17_BoundsChecked ==
    call.op = "get_action_binding_info" =>
        /\ call.result.kind \in {"Ok", "Err"}
        /\ call.result.kind = "Err" <=> call.input.runtime.err # "VRInputError_None"
        /\ call.result.kind = "Ok" =>
              /\ Len(call.result.v) = Min(call.input.runtime.count, BindingCap)
              /\ \A k \in DOMAIN call.result.v :
                    /\ call.result.v[k].slot < BindingCap
                    /\ call.result.v[k].info = BindingInfo(k - 1)

\* The runtime writes count 17: entry 16, past the array, is read and 17
\* entries are returned.
C17_Witness ==
    /\ call.op = "get_action_binding_info"
    /\ call.input.runtime.count = BindingCap + 1
    /\ call.result.kind = "Ok"
    /\ Len(call.result.v) = BindingCap + 1
    /\ call.result.v[BindingCap + 1].slot = BindingCap

\* C20 as stated: with Some(app_key) the pointer passed to OpenBindingUI is
\* to a C string still allocated during the call, holding app_key and a
\* NUL; with None it is null; an action_set of None is passed as handle 0.
C20_KeyAliveDuringCall ==
    (call.op = "open_binding_ui" /\ call.rt # <<>>) =>
        LET arg == call.rt[1].arg
        IN  /\ call.input.app_key.some =>
                  /\ arg.pchAppKey.kind = "allocated"
                  /\ arg.sees = "key"
            /\ ~call.input.app_key.some => arg.pchAppKey = NullPtr
            /\ arg.ulActionSetHandle =
                  IF call.input.action_set.some THEN call.input.action_set.v ELSE 0

\* The runtime is handed the pointer of a C string already freed and finds
\* other bytes behind it.
C20_Witness ==
    /\ call.op = "open_binding_ui"
    /\ call.input.app_key = SomeArg(<<97>>)
    /\ Len(call.rt) = 1
    /\ call.rt[1].arg.pchAppKey = DanglingPtr(<<97, 0>>)
    /\ call.rt[1].arg.sees = "garbage"

----------------------------------------------------------------------------
(* Claims about record sizes and event order, checked under Spec.          *)

\* C13: the size poll_next_event passes to the runtime, the length of every
\* record handed to the decoder and VREVENT_SIZE are one value, so every
\* record the runtime delivers decodes to Some event with a whole payload:
\* no poll ends in a length mismatch, reported or silent.
C13_SizesAgree ==
    /\ polls > 0 => lastPoll.size = VREVENT_SIZE
    /\ \A k \in DOMAIN delivered : Len(delivered[k]) = VREVENT_SIZE
    /\ \A d \in decodeLog :
          /\ Len(d[1]) = VREVENT_SIZE
          /\ d[2].kind = "Some"
          /\ Len(d[2].v.data) = VREVENT_SIZE - 12

C13_Witness ==
    /\ lastPoll.res
    /\ lastPoll.size = VREVENT_SIZE
    /\ Len(lastPoll.record) = VREVENT_SIZE
    /\ lastPoll.result.kind = "Some"
    /\ Len(lastPoll.result.v.data) = VREVENT_SIZE - 12

\* C15: each poll_next_event is one PollNextEvent call and takes at most
\* one record, and the events returned so far are the decodes of the
\* records the runtime delivered so far, one for one and in the same order;
\* every event posted is either delivered or still pending.
C15_InOrderNoLoss ==
    /\ rtPolls = polls
    /\ Len(delivered) <= rtPolls
    /\ Len(delivered) + Len(rtQueue) = posted
    /\ Len(returned) = Len(delivered)
    /\ \A k \in DOMAIN returned : Some(returned[k]) = parse(delivered[k])

\* Two different events came back in the order delivered, with an empty
\* poll among the three.
C15_Witness ==
    /\ polls = 3
    /\ rtPolls = 3
    /\ Len(returned) = 2
    /\ returned[1] # returned[2]
    /\ Some(returned[1]) = parse(delivered[1])
    /\ Some(returned[2]) = parse(delivered[2])
    /\ rtQueue = <<>>

----------------------------------------------------------------------------
(* Claims about concurrent decoding, checked under SpecParallel.           *)

\* C14: however the statements of concurrent calls of VREvent::parse
\* interleave, each call returns the event a decode of its own record alone
\* returns, and while a call runs the record it was given stays as given:
\* no other call changes it.
C14_ParallelDecode ==
    \A t \in Threads :
        /\ thr[t].pc = "returned" => thr[t].result = parse(thr[t].input)
        /\ thr[t].pc \in {"entered", "bytes", "data"} =>
              frames[t].event = thr[t].input
        /\ thr[t].pc \in {"bytes", "data"} => frames[t].bytes = thr[t].input

\* Thread 1 has its event while thread 2, given another record, is in the
\* middle of its own decode.
C14_Witness ==
    /\ thr[1].pc = "returned"
    /\ thr[2].pc = "data"
    /\ thr[1].input # thr[2].input
    /\ thr[1].result = parse(thr[1].input)
    /\ thr[1].result.v.event_type = U32(0, 1)
    /\ frames[2].event = thr[2].input

----------------------------------------------------------------------------
(* Claims about the two-phase protocols, checked under SpecWrap.           *)

\* C21: get_string first calls f with no buffer and capacity 0; when the
\* length n it reports is 0 the result is None and f is not called again;
\* otherwise f is called exactly once more, with a buffer of capacity n,
\* and the result is the first n - 1 bytes of that buffer, unless the
\* second call reports another length than n, which aborts.
C21_TwoPhaseString ==
    call.op = "get_string" =>
        LET n == call.input.probe.len
            n_ == call.input.fill.len
        IN  /\ call.rt[1].arg = [pchValue |-> "null", unBufferSize |-> 0]
            /\ call.rt[1].ret = n
            /\ n = 0 => (Len(call.rt) = 1 /\ call.result = None)
            /\ n # 0 =>
                  /\ Len(call.rt) = 2
                  /\ call.rt[2].arg = [pchValue |-> "storage", unBufferSize |-> n]
                  /\ n_ # n => call.result = Panic
                  /\ n_ = n =>
                        /\ call.result.kind = "Some"
                        /\ Len(call.result.v) = n - 1
                        /\ call.result.v = SubSeq(call.input.buf, 1, n - 1)

\* The second call reports 1 where the first reported 2: the call aborts.
C21_Witness ==
    /\ call.op = "get_string"
    /\ call.input.probe.len = 2
    /\ call.input.fill.len = 1
    /\ Len(call.rt) = 2
    /\ call.rt[2].arg.unBufferSize = 2
    /\ call.result = Panic

\* C22: export_live_to_buffer returns Some(s) exactly when the size probe
\* reported a length other than 0, the fill call returned true and the
\* only NUL of the filled buffer is its last byte, s being the bytes before
\* it; otherwise it returns None; it never aborts, and after a probe that
\* reports length 0 it makes no second runtime call.
C22_ExportSomeOnlyWhenWhole ==
    call.op = "export_live_to_buffer" =>
        LET b == call.input
            whole == /\ b.probe.len # 0
                     /\ b.fill.res
                     /\ b.buf[Len(b.buf)] = 0
                     /\ \A k \in 1..(Len(b.buf) - 1) : b.buf[k] # 0
        IN  /\ call.result.kind \in {"Some", "None"}
            /\ call.result.kind = "Some" <=> whole
            /\ call.result.kind = "Some" =>
                  call.result.v = SubSeq(b.buf, 1, Len(b.buf) - 1)
            /\ b.probe.len = 0 => Len(call.rt) = 1

\* The fill succeeds but leaves a NUL inside the buffer: None.
C22_Witness ==
    /\ call.op = "export_live_to_buffer"
    /\ call.input.probe.len = 2
    /\ call.input.fill.res
    /\ call.input.buf = <<0, 0>>
    /\ Len(call.rt) = 2
    /\ call.result = None

----------------------------------------------------------------------------
(* Claims about the name lookups and Display, checked under SpecWrap.      *)

\* The C string a lookup passes on: the path as lossy UTF-8, or the name,
\* and the NUL that ends it.
Forwarded ==
    IF call.op = "set_action_manifest"
    THEN to_string_lossy(call.input) \o <<0>>
    ELSE call.input \o <<0>>

\* C23: for the four name lookups a path or name with an interior NUL
\* gives Err(VRInputError_InvalidParam) and no runtime call; any other is
\* passed to the runtime exactly once, and the result is Ok, with the
\* handle the runtime wrote, exactly when the runtime returned
\* VRInputError_None, and Err with the runtime's code otherwise.
C23_NulRejectedElseForwarded ==
    call.op \in NameLookups =>
        IF HasNul(call.input)
        THEN /\ call.rt = <<>>
             /\ call.result = Err("VRInputError_InvalidParam")
        ELSE /\ Len(call.rt) = 1
             /\ call.rt[1].arg = Forwarded
             /\ call.result.kind = "Ok" <=> call.rt[1].ret = "VRInputError_None"
             /\ call.result.kind = "Err" <=> call.rt[1].ret # "VRInputError_None"
             /\ call.result.kind = "Err" => inner(call.result) = call.rt[1].ret
             /\ (call.result.kind = "Ok" /\ call.op # "set_action_manifest") =>
                   call.result.v = call.rt[1].out
             /\ (call.result.kind = "Ok" /\ call.op = "set_action_manifest") =>
                   call.result.v = Unit

\* "/a" is looked up once and the handle 42 the runtime wrote comes back.
C23_Witness ==
    /\ call.op = "get_input_source_handle"
    /\ call.input = <<47, 97>>
    /\ Len(call.rt) = 1
    /\ call.rt[1].arg = <<47, 97, 0>>
    /\ call.rt[1].ret = "VRInputError_None"
    /\ call.rt[1].out = 42
    /\ call.result = Ok(42)

Displays ==
    { "Display for EVRInitError", "Display for EVROverlayError",
      "Display for ETrackedPropertyError", "Display for EVRInputError",
      "Display for EVRApplicationError" }

\* The runtime's value of a code of the enumeration a Display belongs to.
ValueOf(op, code) ==
    CASE op = "Display for EVRInitError" -> EVRInitError_value(code)
      [] op = "Display for EVROverlayError" -> EVROverlayError_value(code)
      [] op = "Display for ETrackedPropertyError" -> ETrackedPropertyError_value(code)
      [] op = "Display for EVRInputError" -> EVRInputError_value(code)
      [] op = "Display for EVRApplicationError" -> EVRApplicationError_value(code)

\* C24 as stated: the number Display prints for an error wrapper is the
\* runtime's value of the wrapped code, whatever the code, values of 256
\* or more included.
C24_DisplayPrintsValue ==
    call.op \in Displays => call.result.num = ValueOf(call.op, call.input)

\* VRApplicationError_NotImplemented, whose value is 300, prints as 44.
C24_Witness ==
    /\ call.op = "Display for EVRApplicationError"
    /\ call.input = "VRApplicationError_NotImplemented"
    /\ ValueOf(call.op, call.input) = 300
    /\ call.result = Printed("EVRApplicationError", 44)

----------------------------------------------------------------------------
(* Claims about the build script, checked under SpecBuild.                 *)

\* The platforms the crate ships a library for.
VendoredPlatforms ==
    { [os |-> "windows", arch |-> "x86_64"], [os |-> "linux", arch |-> "x86_64"],
      [os |-> "linux", arch |-> "x86"] }

\* A system openvr of a version from 1.23.7 up to, not including, 1.23.8.
ProbeSucceeds == build.input.system = <<1, 23, 7>>

\* C25 as stated: the vendored library is used exactly when
\* OPENVR_NO_VENDOR is unset or "0" and the target platform is one with
\* vendored files; otherwise the system library is probed and the build
\* fails when the probe fails; binding generation is reached only with the
\* include paths of the library chosen.
C25_LibrarySelection ==
    build.pc \notin {"none", "main"} =>
        LET wanted ==
                /\ ~build.input.env.some \/ build.input.env.v = "0"
                /\ build.input.target \in VendoredPlatforms
        IN  /\ build.library = "vendored" <=> wanted
            /\ build.library = "system" <=> ~wanted
            /\ (build.library = "system" /\ build.pc \in {"bindings", "done"}) =>
                  (ProbeSucceeds /\ build.include_paths = {"system include"})
            /\ (build.library = "system" /\ ~ProbeSucceeds) =>
                  build.pc \in {"system", "failed"}
            /\ (build.library = "vendored" /\ build.pc \in {"bindings", "done"}) =>
                  build.include_paths = {"openvr/headers"}

\* A build on x86_64 Linux for aarch64 Linux, OPENVR_NO_VENDOR unset: the
\* x86_64 library is taken and the build goes through.
C25_Witness ==
    /\ build.pc = "done"
    /\ build.input.env = NoneArg("")
    /\ build.input.host = [os |-> "linux", arch |-> "x86_64"]
    /\ build.input.target = [os |-> "linux", arch |-> "aarch64"]
    /\ build.library = "vendored"
    /\ build.files = {"openvr/bin/linux64/libopenvr_api.so"}

====
